---- MODULE Spec2Model ----
(***************************************************************************)
(* Model of nemo/collections/asr/parts/jasper.py: the masked 1-D           *)
(* convolution (MaskedConv1d), the kernel-size and padding helpers, and    *)
(* the construction and forward pass of JasperBlock; and of                *)
(* examples/nlp/machine_translation/nmt_webapp/nmt_service.py: the model   *)
(* registry MODELS_DICT, initialize and the /translate handler (SpecNmt).  *)
(*                                                                         *)
(* Two levels of detail are used.  MaskedConv1d on its own (SpecConv) is   *)
(* modelled on concrete integer tensors x[b][c][t].  JasperBlock (Spec) is *)
(* modelled on the layer list it builds and on the data flow of forward:   *)
(* a tensor is its channel count C, its time length T and a term t naming  *)
(* the operations that produced it; sequence lengths are concrete.         *)
(*                                                                         *)
(* Scope: heads = -1 (the default) and quantize = False throughout;        *)
(* kernel_size, stride and dilation are one-element lists, the only form   *)
(* line 451 (kernel_size[0], stride[0], dilation[0]) accepts; the blocks   *)
(* explored have padding = 'same', groups = 1, normalization = 'batch' and *)
(* activation = None, and modules are called in eval mode.                 *)
(***************************************************************************)
EXTENDS Integers, Sequences, FiniteSets, TLC

VARIABLES
    mc,         \* SpecConv: the MaskedConv1d under test (a layer record)
    mc_weight,  \* SpecConv: its convolution weight, weight[c][j]
    mc_pc,      \* SpecConv: "new", "ready", "called", "raised"
    mc_call,    \* SpecConv: the last call: its inputs and what it produced
    pc,         \* Spec: "new", "built", "failed", "called", "raised"
    args,       \* Spec: the arguments JasperBlock.__init__ was called with
    block,      \* Spec: the attributes of the constructed JasperBlock
    err,        \* Spec: the exception raised by the last operation, or "none"
    call,       \* Spec: the last forward call: its input and its result
    MODELS_DICT,    \* SpecNmt: the module-level dict, langpair -> loaded model
    nmt_last    \* SpecNmt: the last initialize call or request and its outcome

vars == <<mc, mc_weight, mc_pc, mc_call, pc, args, block, err, call, MODELS_DICT, nmt_last>>
nmtVars == <<MODELS_DICT, nmt_last>>
convVars == <<mc, mc_weight, mc_pc, mc_call>>
blockVars == <<pc, args, block, err, call>>

(***************************************************************************)
(* Bounds of the model.                                                    *)
(***************************************************************************)
MaxKernel == 3      \* kernel sizes 1..MaxKernel
MaxStride == 2      \* strides 1..MaxStride
MaxDilation == 2    \* dilations 1..MaxDilation
MaxPad == 1         \* explicit paddings 0..MaxPad of a lone MaskedConv1d
MaxT == 3           \* time steps of an input tensor, 1..MaxT
MaxRepeat == 2      \* repeat R of a JasperBlock, 1..MaxRepeat

Batch == 2          \* batch items of the concrete tensors
Values == {-1, 1, 2}    \* entries of concrete tensors and weights

(***************************************************************************)
(* Layers.  Every layer is a record of the same shape; the fields a kind   *)
(* does not use are 0.  heads = -1 and context_window = 0 mean "unused".   *)
(***************************************************************************)
Layer(kind, cin, cout, k, s, d, p, g, h, m, cw, pool) ==
    [kind |-> kind, in_channels |-> cin, out_channels |-> cout,
     kernel_size |-> k, stride |-> s, dilation |-> d, padding |-> p,
     groups |-> g, heads |-> h, use_mask |-> m, context_window |-> cw,
     pool |-> pool]

NoLayer == Layer("none", 0, 0, 0, 0, 0, 0, 0, -1, FALSE, 0, "")

\* MaskedConv1d.__init__ with heads = -1 and quantize = False: wraps an
\* nn.Conv1d carrying the geometry it was given.
MaskedConv1d(cin, cout, k, s, p, d, g, h, use_mask) ==
    Layer("MaskedConv1d", cin, cout, k, s, d, p, g, h, use_mask, 0, "")

\* Faulty variant of get_seq_len: the division rounds toward zero.
get_seq_len_trunc(l, lens) ==
    LET n == lens + 2 * l.padding - l.dilation * (l.kernel_size - 1) - 1
    IN  (IF n >= 0 THEN n \div l.stride ELSE -((-n) \div l.stride)) + 1

\* MaskedConv1d.get_seq_len on one length; // is Python's floor division, which
\* \div is for a positive stride.
get_seq_len(l, lens) ==
    (lens + 2 * l.padding - l.dilation * (l.kernel_size - 1) - 1) \div l.stride + 1

\* get_seq_len on a vector of lengths (a tensor of shape [B]).
get_seq_lens(l, lens) == [b \in 1..Len(lens) |-> get_seq_len(l, lens[b])]

(***************************************************************************)
(* Concrete tensors: x[b][c][t], b in 1..B, c in 1..C, t in 1..T; the      *)
(* code's timestep t-1 is index t.                                         *)
(***************************************************************************)
RECURSIVE SumFn(_, _)
SumFn(f, S) ==
    IF S = {} THEN 0
    ELSE LET e == CHOOSE e \in S : TRUE IN f[e] + SumFn(f, S \ {e})

\* Faulty variant of seq_mask: compares with > and so keeps timestep lens[b].
mask_gt(lens, max_len) ==
    [b \in 1..Len(lens) |-> [t \in 1..max_len |-> (t - 1) > lens[b]]]

\* mask = arange(max_len).expand(len(lens), max_len) >= lens.unsqueeze(1)
seq_mask(lens, max_len) ==
    [b \in 1..Len(lens) |-> [t \in 1..max_len |-> (t - 1) >= lens[b]]]

\* x.masked_fill(mask.unsqueeze(1), 0): the mask is broadcast over channels.
masked_fill(x, mask) ==
    [b \in 1..Len(x) |-> [c \in 1..Len(x[b]) |->
        [t \in 1..Len(x[b][c]) |-> IF mask[b][t] THEN 0 ELSE x[b][c][t]]]]

\* Entry i of row v padded with p zeros on both sides.
Padded(v, p, i) == IF i - p >= 1 /\ i - p <= Len(v) THEN v[i - p] ELSE 0

\* Output time length of nn.Conv1d for input time length T.
Conv1dOutLen(l, T) ==
    (T + 2 * l.padding - l.dilation * (l.kernel_size - 1) - 1) \div l.stride + 1

\* nn.Conv1d rejects an input whose padded length is below the dilated kernel.
Conv1dFits(l, T) == T + 2 * l.padding >= l.dilation * (l.kernel_size - 1) + 1

\* nn.Conv1d, groups = 1, one output channel, no bias: out[b][1][t].
Conv1d(l, w, x) ==
    [b \in 1..Len(x) |-> <<
        [t \in 1..Conv1dOutLen(l, Len(x[b][1])) |->
            SumFn([e \in (1..l.in_channels) \X (1..l.kernel_size) |->
                      w[e[1]][e[2]] *
                      Padded(x[b][e[1]], l.padding,
                             (t - 1) * l.stride + (e[2] - 1) * l.dilation + 1)],
                  (1..l.in_channels) \X (1..l.kernel_size))] >>]

\* MaskedConv1d.forward on concrete tensors (heads = -1): the tensor fed to
\* the convolution, the convolution's output and the returned lengths.
MaskedConv1dForward(l, w, x, lens) ==
    LET max_len == Len(x[1][1])
        fed     == IF l.use_mask THEN masked_fill(x, seq_mask(lens, max_len)) ELSE x
        lens2   == IF l.use_mask THEN get_seq_lens(l, lens) ELSE lens
    IN  [fed |-> fed, out |-> Conv1d(l, w, fed), lens |-> lens2]

(***************************************************************************)
(* SpecConv: a MaskedConv1d is constructed, then called once, through      *)
(* forward or through get_seq_len alone (a call leaves the module as it    *)
(* was, so one call per run shows all of them).                            *)
(***************************************************************************)
\* Line 23: MODELS_DICT = {}.
EmptyDict == [k \in {} |-> 0]

NoNmtCall == [op |-> "none", input |-> << >>, raised |-> "none",
              returned |-> << >>, logged |-> "none"]

NoCall == [op |-> "none", x |-> <<>>, lens |-> <<>>, fed |-> <<>>,
           out |-> <<>>, out_lens |-> <<>>]

\* The weights nn.Conv1d draws at random on construction.
WeightSet(C, k) ==
    { [c \in 1..C |-> [j \in 1..k |-> IF (c + j) % 2 = 0 THEN v ELSE 1]] :
        v \in {-1, 1} }

\* Input tensors of shape [Batch, C, T].
TensorSet(C, T) ==
    { [b \in 1..Batch |-> [c \in 1..C |-> [t \in 1..T |->
          IF (b + c + t) % 2 = 0 THEN v ELSE 1]]] : v \in Values }

LensSet(T) == [1..Batch -> 0..T]


InitConv ==
    /\ mc = NoLayer /\ mc_weight = << >> /\ mc_pc = "new" /\ mc_call = NoCall
    /\ pc = "new" /\ args = << >> /\ block = << >> /\ err = "none" /\ call = << >>
    /\ MODELS_DICT = EmptyDict /\ nmt_last = NoNmtCall

ConstructConv ==
    /\ mc_pc = "new"
    /\ \E C \in 1..2, k \in 1..MaxKernel, s \in 1..MaxStride, p \in 0..MaxPad,
          d \in 1..MaxDilation, m \in BOOLEAN :
          /\ mc' = MaskedConv1d(C, 1, k, s, p, d, 1, -1, m)
          /\ \E w \in WeightSet(C, k) : mc_weight' = w
    /\ mc_pc' = "ready"
    /\ UNCHANGED <<mc_call, blockVars, nmtVars>>

\* out, lens = m(x, lens).  On an input shorter than the dilated kernel
\* nn.Conv1d raises after the mask was applied, and nothing is returned.
CallForward ==
    /\ mc_pc = "ready"
    /\ \E T \in 1..MaxT :
         \E x \in TensorSet(mc.in_channels, T), lens \in LensSet(T) :
            LET r == MaskedConv1dForward(mc, mc_weight, x, lens)
            IN  IF Conv1dFits(mc, T)
                THEN /\ mc_call' = [op |-> "forward", x |-> x, lens |-> lens,
                                    fed |-> r.fed, out |-> r.out, out_lens |-> r.lens]
                     /\ mc_pc' = "called"
                ELSE /\ mc_call' = [op |-> "forward", x |-> x, lens |-> lens,
                                    fed |-> r.fed, out |-> << >>, out_lens |-> << >>]
                     /\ mc_pc' = "raised"
    /\ UNCHANGED <<mc, mc_weight, blockVars, nmtVars>>

\* m.get_seq_len(lens) called directly.
CallGetSeqLen ==
    /\ mc_pc = "ready"
    /\ \E T \in 1..MaxT : \E lens \in LensSet(T) :
         mc_call' = [op |-> "get_seq_len", x |-> <<>>, lens |-> lens,
                     fed |-> <<>>, out |-> <<>>,
                     out_lens |-> get_seq_lens(mc, lens)]
    /\ mc_pc' = "called"
    /\ UNCHANGED <<mc, mc_weight, blockVars, nmtVars>>

NextConv == ConstructConv \/ CallForward \/ CallGetSeqLen

SpecConv == InitConv /\ [][NextConv]_vars

(***************************************************************************)
(* Properties of MaskedConv1d (SpecConv).                                  *)
(***************************************************************************)
\* The numerator of the length formula for the convolution under test.
LenNumerator(l, n) == n + 2 * l.padding - l.dilation * (l.kernel_size - 1) - 1

\* r = floor(n / s) + 1, said without division: (r - 1) * s <= n < r * s.
IsFloorPlusOne(r, n, s) == (r - 1) * s <= n /\ n < r * s

LensRecomputed ==
    \/ mc_call.op = "get_seq_len"
    \/ mc_call.op = "forward" /\ mc.use_mask /\ mc_pc = "called"

\* C1: get_seq_len maps every non-negative length lens[b] to
\* floor((lens[b] + 2*padding - dilation*(kernel_size - 1) - 1) / stride) + 1,
\* with the padding, dilation, kernel size and stride of the wrapped convolution,
\* whether it is called directly or by forward with use_mask.
C1_SeqLenFormula ==
    LensRecomputed =>
        /\ Len(mc_call.out_lens) = Len(mc_call.lens)
        /\ \A b \in 1..Len(mc_call.lens) :
              IsFloorPlusOne(mc_call.out_lens[b],
                             LenNumerator(mc, mc_call.lens[b]), mc.stride)

\* C1 witness: a strided convolution recomputed a length whose numerator is
\* negative and not a multiple of the stride, and one whose numerator is positive.
C1_Witness ==
    /\ LensRecomputed
    /\ mc.stride > 1
    /\ \E b \in 1..Len(mc_call.lens) :
          /\ LenNumerator(mc, mc_call.lens[b]) < 0
          /\ LenNumerator(mc, mc_call.lens[b]) % mc.stride # 0
    /\ \E b \in 1..Len(mc_call.lens) : LenNumerator(mc, mc_call.lens[b]) > 0

\* C2: in forward with use_mask, the value fed to the convolution at timestep t
\* (index t + 1) of batch item b is 0 when t >= lens[b] and the input value when
\* t < lens[b], in every channel; without use_mask the input is fed unmodified.
C2_MaskedInput ==
    mc_call.op = "forward" =>
        IF mc.use_mask
        THEN \A b \in 1..Len(mc_call.x) : \A c \in 1..Len(mc_call.x[b]) :
                \A i \in 1..Len(mc_call.x[b][c]) :
                    /\ i - 1 >= mc_call.lens[b] => mc_call.fed[b][c][i] = 0
                    /\ i - 1 < mc_call.lens[b] =>
                          mc_call.fed[b][c][i] = mc_call.x[b][c][i]
        ELSE mc_call.fed = mc_call.x

\* C2 witness: a masked forward call on a batch with one item cut inside the
\* tensor, at a timestep that holds a non-zero value, and one item of full length.
C2_Witness ==
    /\ mc_call.op = "forward" /\ mc.use_mask /\ mc_pc = "called"
    /\ \E b \in 1..Len(mc_call.x) :
          /\ mc_call.lens[b] > 0
          /\ mc_call.lens[b] < Len(mc_call.x[b][1])
          /\ mc_call.x[b][1][mc_call.lens[b] + 1] # 0
          /\ mc_call.fed[b][1][mc_call.lens[b] + 1] = 0
    /\ \E b \in 1..Len(mc_call.x) : mc_call.lens[b] = Len(mc_call.x[b][1])

(***************************************************************************)
(* JasperBlock: helpers of the constructor.                                *)
(***************************************************************************)
\* Faulty variant of compute_new_kernel_size: an even size is kept.
compute_new_kernel_size_even(kernel_size, kernel_width) ==
    LET scaled == (kernel_size * kernel_width[1]) \div kernel_width[2]
    IN  IF scaled > 1 THEN scaled ELSE 1

\* compute_new_kernel_size(kernel_size, kernel_width).  The factor is the
\* float num/den (den a power of two, so the product is exact); int()
\* truncates, which for a positive product is \div.
compute_new_kernel_size(kernel_size, kernel_width) ==
    LET scaled == (kernel_size * kernel_width[1]) \div kernel_width[2]
        new_kernel_size == IF scaled > 1 THEN scaled ELSE 1
    IN  IF new_kernel_size % 2 = 0 THEN new_kernel_size + 1 ELSE new_kernel_size

\* Faulty variant of get_same_padding: the stride/dilation check is dropped and
\* the padding is the full dilated extent.
get_same_padding_full(kernel_size, stride, dilation) ==
    [raised |-> FALSE, value |-> dilation * (kernel_size - 1)]

\* get_same_padding(kernel_size, stride, dilation): raises ValueError, or
\* returns the padding.
get_same_padding(kernel_size, stride, dilation) ==
    IF stride > 1 /\ dilation > 1
    THEN [raised |-> TRUE, value |-> 0]
    ELSE [raised |-> FALSE, value |-> (dilation * (kernel_size - 1)) \div 2]

\* JasperBlock._get_conv (quantize = False): a MaskedConv1d when conv_mask is
\* set, a plain nn.Conv1d otherwise.  nn.Conv1d keeps a one-element list given
\* as kernel size, stride or dilation as a one-element tuple; the layer record
\* keeps that element.
get_conv(conv_mask, cin, cout, k, s, d, p, g, h) ==
    IF conv_mask
    THEN MaskedConv1d(cin, cout, k, s, p, d, g, h, conv_mask)
    ELSE Layer("Conv1d", cin, cout, k, s, d, p, g, -1, FALSE, 0, "")

\* The normalization layer of _get_conv_bn_layer; its group count is kept in
\* the groups field.
norm_layer(normalization, norm_groups, cout) ==
    LET ng == IF norm_groups = -1 THEN cout ELSE norm_groups
    IN  CASE normalization = "group" ->
                Layer("GroupNorm", cout, cout, 0, 0, 0, 0, ng, -1, FALSE, 0, "")
          [] normalization = "instance" ->
                Layer("GroupNorm", cout, cout, 0, 0, 0, 0, cout, -1, FALSE, 0, "")
          [] normalization = "layer" ->
                Layer("GroupNorm", cout, cout, 0, 0, 0, 0, 1, -1, FALSE, 0, "")
          [] OTHER ->
                Layer("BatchNorm1d", cout, cout, 0, 0, 0, 0, 0, -1, FALSE, 0, "")

GroupShuffle(groups, channels) ==
    Layer("GroupShuffle", channels, channels, 0, 0, 0, 0, groups, -1, FALSE, 0, "")

\* Faulty variant of get_conv_bn_layer: the pointwise convolution of the
\* separable pair repeats the geometry of the depthwise one.
get_conv_bn_layer_pw(conv_mask, cin, cout, k, s, d, p, g, h, separable, normalization, norm_groups) ==
    (IF separable
     THEN << get_conv(conv_mask, cin, cin, k, s, d, p, cin, h),
             get_conv(conv_mask, cin, cout, k, s, d, p, g, -1) >>
     ELSE << get_conv(conv_mask, cin, cout, k, s, d, p, g, -1) >>)
    \o << norm_layer(normalization, norm_groups, cout) >>
    \o (IF g > 1 THEN << GroupShuffle(g, cout) >> ELSE << >>)

\* JasperBlock._get_conv_bn_layer: the convolution (a depthwise/pointwise pair
\* when separable), the normalization and, for grouped convolutions, the
\* channel shuffle.
get_conv_bn_layer(conv_mask, cin, cout, k, s, d, p, g, h, separable, normalization, norm_groups) ==
    (IF separable
     THEN << get_conv(conv_mask, cin, cin, k, s, d, p, cin, h),
             get_conv(conv_mask, cin, cout, 1, 1, 1, 0, g, -1) >>
     ELSE << get_conv(conv_mask, cin, cout, k, s, d, p, g, -1) >>)
    \o << norm_layer(normalization, norm_groups, cout) >>
    \o (IF g > 1 THEN << GroupShuffle(g, cout) >> ELSE << >>)

\* JasperBlock._get_act_dropout_layer with activation = None.
get_act_dropout_layer ==
    << Layer("Hardtanh", 0, 0, 0, 0, 0, 0, 0, -1, FALSE, 0, ""),
       Layer("Dropout", 0, 0, 0, 0, 0, 0, 0, -1, FALSE, 0, "") >>

\* SqueezeExcite.__init__ (quantize = False).  context_window is <<>> for None
\* and <<n>> for the integer n; int(None) raises TypeError.
SqueezeExcite(channels, reduction_ratio, context_window) ==
    IF context_window = << >>
    THEN [raised |-> TRUE, layer |-> NoLayer]
    ELSE [raised |-> FALSE,
          layer |-> Layer("SqueezeExcite", channels, channels, 0, 0, 0, 0, 0, -1,
                          FALSE, context_window[1],
                          IF context_window[1] <= 0 THEN "AdaptiveAvgPool1d"
                          ELSE "AvgPool1d")]

\* Faulty variant of stride_val: the flag is read the wrong way round.
stride_val_swapped(stride_last, stride) == IF stride_last THEN stride ELSE <<1>>

\* Lines 463-466: the stride of the first repeat - 1 sub-blocks.
stride_val(stride_last, stride) == IF stride_last THEN <<1>> ELSE stride

\* Lines 526-529: the stride of the residual pointwise convolutions.
res_stride_val(residual_mode, stride) ==
    IF residual_mode = "stride_add" THEN stride ELSE <<1>>

(***************************************************************************)
(* JasperBlock.__init__.  a is the record of its arguments; lists are      *)
(* sequences, None is the empty sequence.                                  *)
(***************************************************************************)
EmptyBlock ==
    [conv_mask |-> FALSE, separable |-> FALSE, residual_mode |-> "", se |-> FALSE,
     mconv |-> << >>, res |-> << >>, dense_residual |-> FALSE, mout |-> << >>]

\* Line 449: the kernel size every main-branch sub-block is built with.
new_kernel_size(a) == compute_new_kernel_size(a.kernel_size[1], a.kernel_size_factor)

\* One sub-block of the main branch, convolving cin channels with stride s.
SubBlock(a, cin, s, padding_val) ==
    get_conv_bn_layer(a.conv_mask, cin, a.planes, new_kernel_size(a), s, a.dilation[1], padding_val, a.groups, a.heads, a.separable, a.normalization, a.norm_groups)

\* Lines 461-487: iterations n .. repeat - 1 of the loop.
RECURSIVE RepeatedSubBlocks(_, _, _)
RepeatedSubBlocks(a, n, padding_val) ==
    IF n > a.repeat - 1 THEN << >>
    ELSE SubBlock(a, IF n = 1 THEN a.inplanes ELSE a.planes,
                  stride_val(a.stride_last, a.stride)[1], padding_val)
         \o get_act_dropout_layer
         \o RepeatedSubBlocks(a, n + 1, padding_val)

\* Lines 489-504: the last sub-block, which always carries the block's stride.
LastSubBlock(a, padding_val) ==
    SubBlock(a, IF a.repeat > 1 THEN a.planes ELSE a.inplanes, a.stride[1], padding_val)

\* Lines 520-549: the residual branches, one per pane (the block's own input
\* when residual_panes is empty); << >> stands for self.res = None.
ResidualBranches(a) ==
    IF ~a.residual THEN << >>
    ELSE LET res_panes == IF Len(a.residual_panes) = 0 THEN << a.inplanes >>
                          ELSE a.residual_panes
         IN  [i \in 1..Len(res_panes) |->
                get_conv_bn_layer(a.conv_mask, res_panes[i], a.planes, 1, res_stride_val(a.residual_mode, a.stride)[1], 1, 0, 1, -1, FALSE, a.normalization, a.norm_groups)]

JasperBlockInit(a) ==
    LET pad == get_same_padding(new_kernel_size(a), a.stride[1], a.dilation[1])
        sq  == SqueezeExcite(a.planes, a.se_reduction_ratio, a.se_context_window)
    IN  IF a.padding # "same"
        THEN [err |-> "ValueError: currently only 'same' padding is supported",
              block |-> EmptyBlock]
        ELSE IF pad.raised
        THEN [err |-> "ValueError: Only stride OR dilation may be greater than 1",
              block |-> EmptyBlock]
        ELSE IF a.se /\ sq.raised
        THEN [err |-> "TypeError: int() argument must be a string or a number, not 'NoneType'",
              block |-> EmptyBlock]
        ELSE [err |-> "none",
              block |->
                [conv_mask |-> a.conv_mask, separable |-> a.separable,
                 residual_mode |-> a.residual_mode, se |-> a.se,
                 mconv |-> RepeatedSubBlocks(a, 1, pad.value)
                           \o LastSubBlock(a, pad.value)
                           \o (IF a.se THEN << sq.layer >> ELSE << >>),
                 res |-> ResidualBranches(a),
                 dense_residual |-> a.residual /\ Len(a.residual_panes) # 0,
                 mout |-> get_act_dropout_layer]]

(***************************************************************************)
(* JasperBlock.forward on the data flow.  A tensor of shape [B, C, T] is   *)
(* its channel count C, its time length T and the term t of the operations *)
(* that produced it; err names the exception raised on the way, if any.    *)
(* A term is [op, at, of]: the operation, a sequence of integers placing   *)
(* it (<<0, i>> layer i of mconv, <<i, j>> layer j of residual branch i,   *)
(* <<-1, j>> layer j of mout, <<i>> input xs[i], the lengths of a mask)    *)
(* and the terms it was applied to.                                        *)
(***************************************************************************)
Term(op, at, of) == [op |-> op, at |-> at, of |-> of]

Tensor(C, T, t) == [C |-> C, T |-> T, t |-> t, err |-> "none"]

Raised(e) == [C |-> 0, T |-> 0, t |-> Term("raised", << >>, << >>), err |-> e]

\* nn.Conv1d called on x.
ApplyConv(l, at, x) ==
    IF x.C # l.in_channels
    THEN Raised("RuntimeError: expected input to have in_channels channels")
    ELSE IF ~Conv1dFits(l, x.T)
    THEN Raised("RuntimeError: kernel size can't be greater than actual input size")
    ELSE Tensor(l.out_channels, Conv1dOutLen(l, x.T), Term("conv", at, << x.t >>))

\* SqueezeExcite.forward: the pooled context gates x; a context window wider
\* than the input leaves the average pooling with no output.
ApplySqueezeExcite(l, at, x) ==
    IF l.context_window > 0 /\ x.T < l.context_window
    THEN Raised("RuntimeError: output size is too small")
    ELSE Tensor(x.C, x.T, Term("se", at, << x.t >>))

\* A layer of one tensor argument: out = l(out).
ApplyLayer(l, at, x) ==
    CASE l.kind = "Conv1d" -> ApplyConv(l, at, x)
      [] l.kind = "SqueezeExcite" -> ApplySqueezeExcite(l, at, x)
      [] OTHER -> Tensor(x.C, x.T, Term(l.kind, at, << x.t >>))

\* MaskedConv1d.forward on the data flow (heads = -1); lens is a vector of
\* lengths, or << >> for None, on which lens.to raises.
MaskedConv1dCall(l, at, x, lens) ==
    IF l.use_mask
    THEN IF lens = << >>
         THEN [x |-> Raised("AttributeError: 'NoneType' object has no attribute 'to'"),
               lens |-> lens]
         ELSE [x |-> ApplyConv(l, at, Tensor(x.C, x.T, Term("masked_fill", lens, << x.t >>))),
               lens |-> get_seq_lens(l, lens)]
    ELSE [x |-> ApplyConv(l, at, x), lens |-> lens]

\* Lines 730-733: one layer of the main branch on (out, lens).
MconvStep(l, at, st) ==
    IF st.x.err # "none" THEN st
    ELSE IF l.kind = "MaskedConv1d"
    THEN MaskedConv1dCall(l, at, st.x, st.lens)
    ELSE [x |-> ApplyLayer(l, at, st.x), lens |-> st.lens]

\* Lines 726-733: layers i.. of self.mconv.
RECURSIVE RunMconv(_, _, _)
RunMconv(mconv, i, st) ==
    IF i > Len(mconv) THEN st
    ELSE RunMconv(mconv, i + 1, MconvStep(mconv[i], <<0, i>>, st))

\* Faulty variant of ResStep: the residual convolution's lengths replace lens.
ResStepTakesLens(l, at, st, lens_orig) ==
    IF st.x.err # "none" THEN st
    ELSE IF l.kind = "MaskedConv1d"
    THEN MaskedConv1dCall(l, at, st.x, lens_orig)
    ELSE [x |-> ApplyLayer(l, at, st.x), lens |-> st.lens]

\* Lines 740-743: one layer of a residual branch on res_out; the lengths it
\* returns are discarded, st.lens is the main branch's.
ResStep(l, at, st, lens_orig) ==
    IF st.x.err # "none" THEN st
    ELSE IF l.kind = "MaskedConv1d"
    THEN [x |-> MaskedConv1dCall(l, at, st.x, lens_orig).x, lens |-> st.lens]
    ELSE [x |-> ApplyLayer(l, at, st.x), lens |-> st.lens]

\* Lines 739-743: layers j.. of residual branch i.
RECURSIVE RunResBranch(_, _, _, _, _)
RunResBranch(layer, i, j, st, lens_orig) ==
    IF j > Len(layer) THEN st
    ELSE RunResBranch(layer, i, j + 1, ResStep(layer[j], <<i, j>>, st, lens_orig), lens_orig)

\* Whether torch broadcasts shapes [B, C1, T1] and [B, C2, T2] together.
Broadcasts(x, y) ==
    /\ x.C = y.C \/ x.C = 1 \/ y.C = 1
    /\ x.T = y.T \/ x.T = 1 \/ y.T = 1

Max(m, n) == IF m >= n THEN m ELSE n

\* Faulty variant of Combine: the residual is added whatever the mode.
CombineAlwaysAdds(residual_mode, out, res_out) ==
    IF ~Broadcasts(out, res_out)
    THEN Raised("RuntimeError: the size of tensor a must match the size of tensor b")
    ELSE Tensor(Max(out.C, res_out.C), Max(out.T, res_out.T),
                Term("add", << >>, << out.t, res_out.t >>))

\* Lines 745-756 (quantize = False): out + res_out, or torch.max(out, res_out).
Combine(residual_mode, out, res_out) ==
    IF ~Broadcasts(out, res_out)
    THEN Raised("RuntimeError: the size of tensor a must match the size of tensor b")
    ELSE Tensor(Max(out.C, res_out.C), Max(out.T, res_out.T),
                Term(IF residual_mode = "add" \/ residual_mode = "stride_add"
                     THEN "add" ELSE "max",
                     << >>, << out.t, res_out.t >>))

\* Lines 737-756: residual branches i.. folded into (out, lens).
RECURSIVE RunResiduals(_, _, _, _, _)
RunResiduals(blk, i, xs, st, lens_orig) ==
    IF i > Len(blk.res) \/ st.x.err # "none" THEN st
    ELSE IF i > Len(xs)
    THEN [x |-> Raised("IndexError: list index out of range"), lens |-> st.lens]
    ELSE LET r == RunResBranch(blk.res[i], i, 1, [x |-> xs[i], lens |-> st.lens], lens_orig)
         IN  RunResiduals(blk, i + 1, xs,
                 [x |-> IF r.x.err # "none" THEN r.x
                        ELSE Combine(blk.residual_mode, st.x, r.x),
                  lens |-> r.lens],
                 lens_orig)

\* Line 759: self.mout(out).
RECURSIVE RunMout(_, _, _)
RunMout(mout, j, x) ==
    IF j > Len(mout) \/ x.err # "none" THEN x
    ELSE RunMout(mout, j + 1, ApplyLayer(mout[j], <<-1, j>>, x))

\* Faulty variant of forward: the input list is returned with the new output
\* whenever the block has a residual, dense or not.
forwardAppendsWithAnyResidual(blk, xs, lens_orig) ==
    LET main == RunMconv(blk.mconv, 1, [x |-> xs[Len(xs)], lens |-> lens_orig])
        res  == RunResiduals(blk, 1, xs, main, lens_orig)
        out  == RunMout(blk.mout, 1, res.x)
    IN  IF out.err # "none"
        THEN [err |-> out.err, out |-> << >>, lens |-> << >>]
        ELSE IF blk.res # << >>
        THEN [err |-> "none", out |-> xs \o << out >>, lens |-> res.lens]
        ELSE [err |-> "none", out |-> << out >>, lens |-> res.lens]

\* JasperBlock.forward((xs, lens_orig)): the returned list and lengths, or
\* the exception raised.
forward(blk, xs, lens_orig) ==
    LET main == RunMconv(blk.mconv, 1, [x |-> xs[Len(xs)], lens |-> lens_orig])
        res  == RunResiduals(blk, 1, xs, main, lens_orig)
        out  == RunMout(blk.mout, 1, res.x)
    IN  IF out.err # "none"
        THEN [err |-> out.err, out |-> << >>, lens |-> << >>]
        ELSE IF blk.res # << >> /\ blk.dense_residual
        THEN [err |-> "none", out |-> xs \o << out >>, lens |-> res.lens]
        ELSE [err |-> "none", out |-> << out >>, lens |-> res.lens]

(***************************************************************************)
(* Spec: a JasperBlock is constructed, which succeeds or raises; a block   *)
(* that was built is called once (forward leaves the block as it was).     *)
(***************************************************************************)
\* <<inplanes, planes>>
PlaneChoices == { <<2, 3>> }

\* <<kernel_size, kernel_size_factor>>: every kernel size with the default
\* factor 1.0, and kernel sizes 1 and 3 with the factors 0.5 and 1.5.
KernelChoices ==
    { <<k, <<1, 1>> >> : k \in 1..MaxKernel }
    \cup { <<1, <<1, 2>> >>, <<3, <<1, 2>> >>, <<1, <<3, 2>> >>, <<3, <<3, 2>> >> }

\* Line 435: the default of se_context_window, None.
DefaultSeContextWindow == << >>

ContextWindows == { DefaultSeContextWindow, <<-1>>, <<2>> }

\* No residual; a residual on the block's own input, in each mode; a dense
\* residual over two panes.
ResidualChoices ==
    { [residual |-> FALSE, residual_mode |-> "add", residual_panes |-> << >>] }
    \cup { [residual |-> TRUE, residual_mode |-> m, residual_panes |-> << >>] :
             m \in {"add", "stride_add", "max"} }
    \cup { [residual |-> TRUE, residual_mode |-> m, residual_panes |-> <<2, 2>>] :
             m \in {"add"} }

\* se off; se on with se_context_window left out, or given as -1 or 2.
SeChoices ==
    { [se |-> FALSE, se_context_window |-> DefaultSeContextWindow] }
    \cup { [se |-> TRUE, se_context_window |-> cw] : cw \in ContextWindows }

ArgsOf(ip, r, kf, s, d, rc, sep, cm, sec, sl) ==
    [inplanes |-> ip[1], planes |-> ip[2], repeat |-> r, kernel_size |-> << kf[1] >>,
     kernel_size_factor |-> kf[2], stride |-> <<s>>, dilation |-> <<d>>,
     padding |-> "same", residual |-> rc.residual, groups |-> 1,
     separable |-> sep, heads |-> -1, normalization |-> "batch", norm_groups |-> 1,
     residual_mode |-> rc.residual_mode, residual_panes |-> rc.residual_panes,
     conv_mask |-> cm, se |-> sec.se, se_reduction_ratio |-> 16,
     se_context_window |-> sec.se_context_window, stride_last |-> sl]

NoForward == [xs |-> << >>, lens |-> << >>, out |-> << >>, out_lens |-> << >>]

\* Input lists of 1..2 tensors of the block's channel count and T timesteps.
XsSet(C, T) == { [i \in 1..n |-> Tensor(C, T, Term("x", <<i>>, << >>))] : n \in 1..2 }

\* Lengths of a batch padded to T timesteps (its longest item has T), or None.
BlockLensSet(T) == { << >> } \cup { <<n, T>> : n \in 0..T }

Init ==
    /\ pc = "new" /\ args = << >> /\ block = EmptyBlock /\ err = "none"
    /\ call = NoForward
    /\ mc = NoLayer /\ mc_weight = << >> /\ mc_pc = "new" /\ mc_call = NoCall
    /\ MODELS_DICT = EmptyDict /\ nmt_last = NoNmtCall

ArgSet ==
    { ArgsOf(ip, r, kf, s, d, rc, sep, cm, sec, sl) :
        ip \in PlaneChoices, r \in 1..MaxRepeat, kf \in KernelChoices,
        s \in 1..MaxStride, d \in 1..MaxDilation, rc \in ResidualChoices,
        sep \in BOOLEAN, cm \in BOOLEAN, sec \in SeChoices, sl \in BOOLEAN }

\* JasperBlock(**a): returns a block, or raises.
Construct ==
    /\ pc = "new"
    /\ \E a \in ArgSet :
          LET r == JasperBlockInit(a)
          IN  /\ args' = a
              /\ block' = r.block
              /\ err' = r.err
              /\ pc' = IF r.err = "none" THEN "built" ELSE "failed"
    /\ UNCHANGED <<call, convVars, nmtVars>>

\* block((xs, lens)): returns the list of tensors and the lengths, or raises.
Forward ==
    /\ pc = "built"
    /\ \E T \in 1..MaxT : \E xs \in XsSet(args.inplanes, T), lens \in BlockLensSet(T) :
          LET r == forward(block, xs, lens)
          IN  /\ call' = [xs |-> xs, lens |-> lens, out |-> r.out, out_lens |-> r.lens]
              /\ err' = r.err
              /\ pc' = IF r.err = "none" THEN "called" ELSE "raised"
    /\ UNCHANGED <<args, block, convVars, nmtVars>>

Next == Construct \/ Forward

Spec == Init /\ [][Next]_vars

(***************************************************************************)
(* Properties of JasperBlock (Spec).                                       *)
(***************************************************************************)
Built == pc \in {"built", "called", "raised"}

IsConvLayer(l) == l.kind \in {"Conv1d", "MaskedConv1d"}

IsMaskedConv(l) == l.kind = "MaskedConv1d"

\* The convolutions of the main branch, in order.
MainConvs == SelectSeq(block.mconv, IsConvLayer)

\* Convolutions per sub-block: the depthwise/pointwise pair, or the single one.
PerSubBlock == IF args.separable THEN 2 ELSE 1

\* The convolution of sub-block n that carries the block's kernel.
KernelConv(n) == MainConvs[(n - 1) * PerSubBlock + 1]

\* The stride sub-block n of R is said to convolve with.
SubBlockStride(n) ==
    IF args.stride_last /\ n < args.repeat THEN 1 ELSE args.stride[1]

RECURSIVE StrideProduct(_, _)
StrideProduct(convs, i) ==
    IF i > Len(convs) THEN 1 ELSE convs[i].stride * StrideProduct(convs, i + 1)

RECURSIVE Pow(_, _)
Pow(m, n) == IF n = 0 THEN 1 ELSE m * Pow(m, n - 1)

\* lens passed through get_seq_len of the MaskedConv1d layers i.. of layers.
RECURSIVE ThroughMasked(_, _, _)
ThroughMasked(layers, i, lens) ==
    IF i > Len(layers) THEN lens
    ELSE ThroughMasked(layers, i + 1,
            IF IsMaskedConv(layers[i])
            THEN [b \in 1..Len(lens) |-> get_seq_len(layers[i], lens[b])]
            ELSE lens)

\* C3: the lengths forward returns are the input lengths passed, in order,
\* through get_seq_len of every MaskedConv1d of self.mconv and nothing else (the
\* residual branches never change them); with conv_mask false the block holds no
\* MaskedConv1d and the returned lengths are the input lengths (None for None).
C3_ReturnedLens ==
    pc = "called" =>
        /\ call.out_lens = ThroughMasked(block.mconv, 1, call.lens)
        /\ ~block.conv_mask =>
              /\ \A i \in 1..Len(block.mconv) : ~IsMaskedConv(block.mconv[i])
              /\ \A i \in 1..Len(block.res) : \A j \in 1..Len(block.res[i]) :
                    ~IsMaskedConv(block.res[i][j])
              /\ call.out_lens = call.lens

\* C3 witness: a masked block whose residual branch strides returned lengths
\* that differ from the input lengths and from what the residual branch
\* computes for them.
C3_Witness ==
    /\ pc = "called" /\ block.conv_mask
    /\ block.res # << >> /\ block.residual_mode = "stride_add"
    /\ call.out_lens # call.lens
    /\ call.out_lens # ThroughMasked(block.res[1], 1, call.lens)

Lengths == 0..(MaxT + 2)

\* C4: with 'same' padding every stride-1 masked convolution the block builds
\* keeps the valid length, get_seq_len(L) = L, whatever its kernel size and
\* dilation; a strided one has dilation 1 and maps L to floor((L - 1) / s) + 1.
C4_SamePaddingKeepsLength ==
    Built =>
        \A l \in {block.mconv[i] : i \in 1..Len(block.mconv)}
                 \cup UNION {{block.res[i][j] : j \in 1..Len(block.res[i])} :
                                i \in 1..Len(block.res)} :
            IsMaskedConv(l) =>
                IF l.stride = 1
                THEN \A L \in Lengths : get_seq_len(l, L) = L
                ELSE /\ l.dilation = 1
                     /\ \A L \in Lengths :
                           IsFloorPlusOne(get_seq_len(l, L), L - 1, l.stride)

\* C4 witness: a block of masked convolutions with a kernel wider than 1, one
\* of them strided and one not.
C4_Witness ==
    /\ Built /\ block.conv_mask
    /\ \E i \in 1..Len(block.mconv) :
          /\ IsMaskedConv(block.mconv[i])
          /\ block.mconv[i].kernel_size >= 3 /\ block.mconv[i].stride > 1
    /\ \E i \in 1..Len(block.mconv) :
          /\ IsMaskedConv(block.mconv[i])
          /\ block.mconv[i].kernel_size >= 3 /\ block.mconv[i].stride = 1

\* C5: with repeat R and stride S, when stride_last is false every one of the R
\* sub-blocks of the main branch convolves with stride S (total stride S^R);
\* when it is true the first R - 1 convolve with stride 1 and the last with S
\* (total stride S).
C5_StrideLast ==
    Built =>
        /\ Len(MainConvs) = args.repeat * PerSubBlock
        /\ \A n \in 1..args.repeat :
              KernelConv(n).stride =
                 IF args.stride_last /\ n < args.repeat THEN 1 ELSE args.stride[1]
        /\ StrideProduct(MainConvs, 1) =
              IF args.stride_last THEN args.stride[1]
              ELSE Pow(args.stride[1], args.repeat)

\* C5 witness: a block of at least two sub-blocks that strides only in the last.
C5_Witness ==
    /\ Built /\ args.stride_last /\ args.repeat >= 2 /\ args.stride[1] >= 2
    /\ KernelConv(1).stride = 1
    /\ KernelConv(args.repeat).stride = args.stride[1]

\* C6: the effective kernel size is kernel_size * kernel_size_factor rounded
\* down to the nearest odd integer, and at least 1: the largest odd K with
\* K <= kernel_size * factor, or 1 when there is none.
C6_KernelRoundedDown ==
    Built =>
        LET K   == KernelConv(1).kernel_size
            num == args.kernel_size[1] * args.kernel_size_factor[1]
            den == args.kernel_size_factor[2]
        IN  /\ K % 2 = 1 /\ K >= 1
            /\ K = 1 \/ K * den <= num
            /\ (K + 2) * den > num

\* C7: a JasperBlock whose stride and dilation are both greater than 1 fails
\* with ValueError('Only stride OR dilation may be greater than 1') and no layer
\* is created; in every other case the padding the block is built with is
\* floor(dilation * (kernel_size - 1) / 2), that is 2p <= d(k - 1) <= 2p + 1.
C7_StrideOrDilation ==
    pc # "new" =>
        IF args.stride[1] > 1 /\ args.dilation[1] > 1
        THEN /\ pc = "failed"
             /\ err = "ValueError: Only stride OR dilation may be greater than 1"
             /\ block.mconv = << >> /\ block.res = << >> /\ block.mout = << >>
        ELSE /\ err # "ValueError: Only stride OR dilation may be greater than 1"
             /\ Built =>
                  \A n \in 1..args.repeat :
                     LET l == KernelConv(n)
                         e == args.dilation[1] * (l.kernel_size - 1)
                     IN  2 * l.padding <= e /\ e <= 2 * l.padding + 1

\* C7 witness: a construction with stride 2 and dilation 2 was refused.
C7_Witness ==
    /\ pc = "failed"
    /\ args.stride[1] > 1 /\ args.dilation[1] > 1
    /\ err = "ValueError: Only stride OR dilation may be greater than 1"

\* C8: se_context_window defaults to -1, global context: a JasperBlock
\* constructed with se = True and no se_context_window (and a stride and
\* dilation it accepts) is built, and its SqueezeExcite layer pools over the
\* whole time axis.
C8_DefaultContextIsGlobal ==
    ( /\ pc # "new"
      /\ args.se /\ args.se_context_window = DefaultSeContextWindow
      /\ ~(args.stride[1] > 1 /\ args.dilation[1] > 1) ) =>
        /\ Built
        /\ block.mconv # << >>
        /\ block.mconv[Len(block.mconv)].kind = "SqueezeExcite"
        /\ block.mconv[Len(block.mconv)].pool = "AdaptiveAvgPool1d"

\* The operation residual_mode is said to combine the branches with.
CombineOp == IF args.residual_mode \in {"add", "stride_add"} THEN "add" ELSE "max"

\* Term t folds residual branches 1..i, in order, into the main-branch output:
\* each step is CombineOp of what came before and the output of the branch's
\* last layer.
RECURSIVE CombinesBranches(_, _)
CombinesBranches(t, i) ==
    IF i = 0 THEN t.at = <<0, Len(block.mconv)>>
    ELSE /\ t.op = CombineOp
         /\ Len(t.of) = 2
         /\ t.of[2].at = <<i, Len(block.res[i])>>
         /\ CombinesBranches(t.of[1], i - 1)

\* C9: with 'add' the residual pointwise convolutions have stride 1 and their
\* output is added to the main-branch output; with 'stride_add' they have the
\* block's stride and their output is added; with any other mode they have
\* stride 1 and the result is the element-wise maximum of the two outputs.
C9_ResidualMode ==
    /\ Built =>
          \A i \in 1..Len(block.res) : \A j \in 1..Len(block.res[i]) :
              IsConvLayer(block.res[i][j]) =>
                  /\ block.res[i][j].kernel_size = 1
                  /\ block.res[i][j].stride =
                        IF args.residual_mode = "stride_add" THEN args.stride[1] ELSE 1
    /\ (pc = "called" /\ block.res # << >>) =>
          LET out == call.out[Len(call.out)].t      \* Dropout(Hardtanh(combined))
          IN  /\ out.op = "Dropout" /\ out.of[1].op = "Hardtanh"
              /\ CombinesBranches(out.of[1].of[1], Len(block.res))

\* C9 witness: a forward call returned from a block whose mode is neither
\* 'add' nor 'stride_add', with a block stride above 1.
C9_Witness ==
    /\ pc = "called" /\ block.res # << >>
    /\ args.residual_mode = "max" /\ args.stride[1] > 1
    /\ call.out[Len(call.out)].t.of[1].of[1].op = "max"

\* C10: when separable, every main-branch sub-block is a depthwise convolution
\* from in_channels to in_channels with groups = in_channels carrying the
\* block's kernel size, stride, dilation and padding, followed by a pointwise
\* convolution from in_channels to out_channels with kernel size 1, stride 1,
\* dilation 1 and padding 0, which never changes a sequence length; when not
\* separable it is a single convolution from in_channels to out_channels.
C10_Separable ==
    Built =>
        /\ Len(MainConvs) = args.repeat * PerSubBlock
        /\ \A n \in 1..args.repeat :
              LET cin == IF n = 1 THEN args.inplanes ELSE args.planes
                  dw  == KernelConv(n)
                  pw  == MainConvs[(n - 1) * PerSubBlock + 2]
              IN  /\ dw.in_channels = cin
                  /\ dw.kernel_size = new_kernel_size(args)
                  /\ dw.stride = SubBlockStride(n)
                  /\ dw.dilation = args.dilation[1]
                  /\ dw.padding = (args.dilation[1] * (new_kernel_size(args) - 1)) \div 2
                  /\ IF args.separable
                     THEN /\ dw.out_channels = cin /\ dw.groups = cin
                          /\ pw.in_channels = cin /\ pw.out_channels = args.planes
                          /\ pw.kernel_size = 1 /\ pw.stride = 1
                          /\ pw.dilation = 1 /\ pw.padding = 0
                          /\ \A L \in Lengths : get_seq_len(pw, L) = L
                     ELSE /\ dw.out_channels = args.planes
                          /\ dw.groups = args.groups

\* C10 witness: a separable block of two or more sub-blocks with a kernel wider
\* than 1 and a stride above 1.
C10_Witness ==
    /\ Built /\ args.separable /\ args.repeat >= 2
    /\ KernelConv(2).kernel_size >= 3 /\ KernelConv(2).stride > 1
    /\ KernelConv(2).groups = args.planes
    /\ MainConvs[4].kernel_size = 1

(***************************************************************************)
(* nmt_service.py.  A config file is missing, or holds zero bytes, the     *)
(* JSON null, or a JSON object from language pairs to .nemo paths.  A      *)
(* loaded model is the path it was restored from and the device it is on;  *)
(* what MTEncDecModel computes is left uninterpreted: a translation is     *)
(* the pair of the model and the source text.                              *)
(***************************************************************************)
LangPairs == {"en-de", "de-en"}
RequestLangPairs == LangPairs \cup {"fr-en"}
NemoPaths == {"a.nemo", "b.nemo"}
Texts == {"hello", "bye"}

ConfigFiles ==
    { [kind |-> k, map |-> EmptyDict] : k \in {"missing", "zero-bytes", "null"} }
    \cup { [kind |-> "object", map |-> m] :
             m \in UNION { [S -> NemoPaths] : S \in SUBSET LangPairs } }

\* Lines 48-50: MTEncDecModel.restore_from(restore_path=value), moved to the
\* GPU when there is one.
RestoreFrom(path, cuda) == [path |-> path, device |-> IF cuda THEN "cuda" ELSE "cpu"]

\* Line 63: model.translate(texts), one translation per text.
Translate(model, texts) == [i \in 1..Len(texts) |-> [by |-> model, of |-> texts[i]]]

\* Line 68: json.dumps(value).
JsonDumps(value) == [json |-> value]

\* initialize(config_file_path): the exception raised ("none" when it
\* returns) and MODELS_DICT afterwards.  open() raises on a missing file and
\* json.load on a file of zero bytes, both before line 45; json.load gives None
\* only for the JSON null.
initialize(models, cfg, cuda) ==
    CASE cfg.kind = "missing" ->
            [raised |-> "FileNotFoundError: No such file or directory", models |-> models]
      [] cfg.kind = "zero-bytes" ->
            [raised |-> "JSONDecodeError: Expecting value", models |-> models]
      [] cfg.kind = "null" ->
            [raised |-> "ValueError: Did not find the config.json or it was empty",
             models |-> models]
      [] OTHER ->
            [raised |-> "none",
             models |-> [k \in DOMAIN models \cup DOMAIN cfg.map |->
                            IF k \in DOMAIN cfg.map THEN RestoreFrom(cfg.map[k], cuda)
                            ELSE models[k]]]

\* Faulty variant of get_translation: a language pair that is not registered is
\* served by some registered model.
get_translation_fallback(models, langpair, src) ==
    IF DOMAIN models # {}
    THEN LET k == IF langpair \in DOMAIN models THEN langpair
                  ELSE CHOOSE k \in DOMAIN models : TRUE
         IN  [returned |-> << JsonDumps(Translate(models[k], << src >>)[1]) >>,
              logged |-> "info"]
    ELSE [returned |-> << >>, logged |-> "error"]

\* get_translation() for a request carrying langpair and text: the value the
\* handler returns (<< >> when it returns none) and the level it logs at.
get_translation(models, langpair, src) ==
    IF langpair \in DOMAIN models
    THEN [returned |-> << JsonDumps(Translate(models[langpair], << src >>)[1]) >>,
          logged |-> "info"]
    ELSE [returned |-> << >>, logged |-> "error"]

InitNmt ==
    /\ MODELS_DICT = EmptyDict /\ nmt_last = NoNmtCall
    /\ pc = "new" /\ args = << >> /\ block = EmptyBlock /\ err = "none"
    /\ call = NoForward
    /\ mc = NoLayer /\ mc_weight = << >> /\ mc_pc = "new" /\ mc_call = NoCall

\* initialize(path) on some config file, with or without a GPU.
Initialize ==
    /\ \E cfg \in ConfigFiles, cuda \in BOOLEAN :
          LET r == initialize(MODELS_DICT, cfg, cuda)
          IN  /\ MODELS_DICT' = r.models
              /\ nmt_last' = [op |-> "initialize", input |-> cfg, raised |-> r.raised,
                              returned |-> << >>, logged |-> "info"]
    /\ UNCHANGED <<convVars, blockVars>>

\* A /translate request with langpair and text.
TranslateRequest ==
    /\ \E lp \in RequestLangPairs, text \in Texts :
          LET r == get_translation(MODELS_DICT, lp, text)
          IN  nmt_last' = [op |-> "translate", input |-> [langpair |-> lp, text |-> text],
                           raised |-> "none", returned |-> r.returned,
                           logged |-> r.logged]
    /\ UNCHANGED <<MODELS_DICT, convVars, blockVars>>

NextNmt == Initialize \/ TranslateRequest

SpecNmt == InitNmt /\ [][NextNmt]_vars

(***************************************************************************)
(* Properties of nmt_service.py (SpecNmt).                                 *)
(***************************************************************************)
\* The config file holds no language-pair entry.
ConfigIsEmpty(cfg) ==
    \/ cfg.kind \in {"zero-bytes", "null"}
    \/ cfg.kind = "object" /\ DOMAIN cfg.map = {}

\* C11: initialize raises ValueError('Did not find the config.json or it was
\* empty') whenever the config file is not found or is empty (holds no
\* language-pair entry); otherwise it returns and MODELS_DICT holds, for every
\* key of the config, the model loaded from that key's path.
C11_InitializeRaisesOrLoads ==
    nmt_last.op = "initialize" =>
        IF nmt_last.input.kind = "missing" \/ ConfigIsEmpty(nmt_last.input)
        THEN nmt_last.raised = "ValueError: Did not find the config.json or it was empty"
        ELSE /\ nmt_last.raised = "none"
             /\ \A k \in DOMAIN nmt_last.input.map :
                   /\ k \in DOMAIN MODELS_DICT
                   /\ MODELS_DICT[k].path = nmt_last.input.map[k]

\* C12: after any sequence of initialize calls and requests, a /translate
\* request returns a response if and only if its langpair is a key of
\* MODELS_DICT, the response being the JSON encoding of the first result of the
\* model registered for exactly that langpair; for any other langpair the
\* handler logs an error and returns no value.
C12_TranslateIffRegistered ==
    nmt_last.op = "translate" =>
        LET lp == nmt_last.input.langpair IN
        /\ nmt_last.raised = "none"
        /\ nmt_last.returned # << >> <=> lp \in DOMAIN MODELS_DICT
        /\ lp \in DOMAIN MODELS_DICT =>
              nmt_last.returned =
                 << [json |-> [by |-> MODELS_DICT[lp], of |-> nmt_last.input.text]] >>
        /\ lp \notin DOMAIN MODELS_DICT =>
              nmt_last.returned = << >> /\ nmt_last.logged = "error"

\* C12 witness: with two language pairs registered to different models, a
\* request for one of them was answered by its own model.
C12_Witness ==
    /\ nmt_last.op = "translate"
    /\ DOMAIN MODELS_DICT = LangPairs
    /\ MODELS_DICT["en-de"] # MODELS_DICT["de-en"]
    /\ nmt_last.input.langpair = "de-en"
    /\ nmt_last.returned # << >>
    /\ nmt_last.returned[1].json.by = MODELS_DICT["de-en"]

(***************************************************************************)
(* The list JasperBlock.forward returns (Spec).                            *)
(***************************************************************************)
\* The block was asked for a dense residual: residual with residual_panes.
DenseAsked == args.residual /\ Len(args.residual_panes) > 0

\* C13: forward returns the input list xs with the new output appended (length
\* len(xs) + 1, earlier entries unchanged and in order) exactly when residual is
\* true and residual_panes is non-empty; in every other case it returns a
\* one-element list holding only the new output.  In the dense case residual
\* branch i reads xs[i], so a call with len(xs) < len(residual_panes) does not
\* return.
C13_ReturnedList ==
    /\ pc = "called" =>
          /\ call.out[Len(call.out)].t.op = "Dropout"
          /\ call.out[Len(call.out)].t.at = <<-1, Len(block.mout)>>
          /\ IF DenseAsked
             THEN /\ Len(call.out) = Len(call.xs) + 1
                  /\ \A i \in 1..Len(call.xs) : call.out[i] = call.xs[i]
                  /\ Len(call.xs) >= Len(args.residual_panes)
             ELSE Len(call.out) = 1
    /\ (pc \in {"called", "raised"} /\ DenseAsked
          /\ Len(call.xs) < Len(args.residual_panes)) => pc = "raised"

\* C13 witness: a dense block over two panes returned its two inputs followed
\* by the new output.
C13_Witness ==
    /\ pc = "called" /\ DenseAsked
    /\ Len(call.xs) = 2 /\ Len(call.out) = 3
    /\ call.out[1] = call.xs[1] /\ call.out[2] = call.xs[2]
    /\ call.out[3].t.op = "Dropout"

====
